---- MODULE Spec2Model ----
(***************************************************************************)
(* Model of config_loader.py: the configuration readers, the asset         *)
(* scanners, validate_assets and load_all_and_validate.                    *)
(*                                                                         *)
(* Python values are records [t, i, s]: t is the type tag ("absent" for a  *)
(* key that is not in the mapping, "none", "int", "str"), i the integer    *)
(* payload and s the string payload.                                       *)
(***************************************************************************)
EXTENDS Integers, Sequences, FiniteSets, TLC

VARIABLES
    mode,          \* "direct": validate_assets is called; "load": load_all_and_validate
    pc,            \* position of the caller
    metaArg,       \* direct mode: the meta argument, a sequence of [role, cfg]
    textArg,       \* direct mode: the text_cfg argument
    charaDoc,      \* load mode: parsed config/chara_meta.yml
    textDoc,       \* load mode: parsed config/text_configs.yml
    whiteDoc,      \* load mode: parsed config/process_whitelist.yml
    os_name,       \* load mode: the os_name argument
    callback,      \* load mode: "none" or "sink"
    bgDir,         \* assets/background: [exists, files]
    charaDir,      \* assets/chara: name -> [kind, files]
    fontFiles,     \* names of the regular files in assets/fonts
    MAHOSHOJO,     \* module globals
    TEXT_CONFIGS,
    PROCESS_WHITELIST,
    BACKGROUND_INDEXES,
    calls,         \* results of the validate_assets calls made so far
    idx,           \* load mode: position in the delivery loop
    sinkCalls,     \* messages the sink has been invoked with
    sinkRaised,    \* per sink invocation, whether it raised
    logged,        \* number of logger.exception records of the delivery loops
    returned       \* load mode: the value returned

vars == <<mode, pc, metaArg, textArg, charaDoc, textDoc, whiteDoc, os_name,
          callback, bgDir, charaDir, fontFiles, MAHOSHOJO, TEXT_CONFIGS,
          PROCESS_WHITELIST, BACKGROUND_INDEXES, calls, idx, sinkCalls,
          sinkRaised, logged, returned>>

-----------------------------------------------------------------------------
(* Bounds of the model *)

\* largest differential index a file on disk carries
MaxIdx == 3
\* largest emotion_count a configuration declares
MaxEc == 3
\* number of validate_assets calls made on the same inputs (direct mode)
NumCalls == 2

\* the fixed number of backgrounds, range(1, 17)
NumBackgrounds == 16

-----------------------------------------------------------------------------
(* Python values *)

Absent == [t |-> "absent", i |-> 0, s |-> ""]
PyNone == [t |-> "none", i |-> 0, s |-> ""]
PyInt(n) == [t |-> "int", i |-> n, s |-> ""]
PyStr(x) == [t |-> "str", i |-> 0, s |-> x]

\* decimal numerals the model knows, by value
Numerals == <<"0", "1", "2", "3", "4", "5">>

IsNumeral(x) == \E k \in 1..Len(Numerals) : Numerals[k] = x

NumeralValue(x) == (CHOOSE k \in 1..Len(Numerals) : Numerals[k] = x) - 1

\* int(v): the integer, or the exception raised
IntOf(v) ==
    CASE v.t = "int" -> [ok |-> TRUE, val |-> v.i, exc |-> ""]
      [] v.t = "str" /\ IsNumeral(v.s) -> [ok |-> TRUE, val |-> NumeralValue(v.s), exc |-> ""]
      [] v.t = "str" /\ ~IsNumeral(v.s) -> [ok |-> FALSE, val |-> 0, exc |-> "ValueError"]
      [] OTHER -> [ok |-> FALSE, val |-> 0, exc |-> "TypeError"]

\* str(v)
StrOf(v) ==
    CASE v.t = "str" -> v.s
      [] v.t = "int" /\ v.i \in 0..(Len(Numerals) - 1) -> Numerals[v.i + 1]
      [] OTHER -> "None"

\* d.get(key): None for a key that is not there
Get(v) == IF v.t = "absent" THEN PyNone ELSE v

-----------------------------------------------------------------------------
(* Sorting *)

\* role and directory names of the model, in Python's string order
Names == <<"a", "b", "ghost", "t">>

Rank(n) == CHOOSE k \in 1..Len(Names) : Names[k] = n

RECURSIVE SortedInts(_)
SortedInts(S) ==
    IF S = {} THEN <<>>
    ELSE LET m == CHOOSE x \in S : \A y \in S : x <= y
         IN <<m>> \o SortedInts(S \ {m})

RECURSIVE SortedNames(_)
SortedNames(S) ==
    IF S = {} THEN <<>>
    ELSE LET m == CHOOSE x \in S : \A y \in S : Rank(x) <= Rank(y)
         IN <<m>> \o SortedNames(S \ {m})

Range(q) == {q[k] : k \in 1..Len(q)}

\* the orders in which a set can be iterated
Orders(S) == {q \in [1..Cardinality(S) -> S] : Range(q) = S}

-----------------------------------------------------------------------------
(* Asset scanners *)

\* lower-casing, as re.IGNORECASE sees the spellings of the model
Lower(x) ==
    CASE x = "C" -> "c"
      [] x = "A" -> "a"
      [] x = "B" -> "b"
      [] x = "PNG" -> "png"
      [] x = "Win32" -> "win32"
      [] OTHER -> x

\* a directory entry name <pre><n>.<ext> of background, <stem>(<n>).<ext> of a role
BgFile(pre, n, ext) == [stem |-> pre, n |-> n, ext |-> ext]

\* ^c(\d+)\.png$, re.IGNORECASE
BgMatch(f) == Lower(f.stem) = "c" /\ Lower(f.ext) = "png"

_scan_backgrounds ==
    IF ~bgDir.exists THEN {}
    ELSE {f.n : f \in {g \in bgDir.files : BgMatch(g)}}

\* for comparison: every entry of chara/ taken for a role, regular files included
ScanRolesAnyEntry ==
    IF ~charaDir.exists THEN {}
    ELSE {n \in DOMAIN charaDir.entries : charaDir.entries[n].kind # "absent"}

_scan_roles_in_assets ==
    IF ~charaDir.exists THEN {}
    ELSE {n \in DOMAIN charaDir.entries : charaDir.entries[n].kind = "dir"}

\* ^<role>\s*\((\d+)\)\.png$, re.IGNORECASE
DiffMatch(role, f) == Lower(f.stem) = Lower(role) /\ Lower(f.ext) = "png"

_scan_role_diffs(role) ==
    IF ~charaDir.exists \/ charaDir.entries[role].kind # "dir" THEN {}
    ELSE {f.n : f \in {g \in charaDir.entries[role].files : DiffMatch(role, g)}}

-----------------------------------------------------------------------------
(* validate_assets *)

\* a message f"<kind>: <list>": the sentence by its kind, the embedded role, list
\* of indices, list of names or font name
Msg(kind, role, ints, names, text) ==
    [kind |-> kind, role |-> role, ints |-> ints, names |-> names, text |-> text]

RECURSIVE Flatten(_)
Flatten(qq) == IF qq = <<>> THEN <<>> ELSE Head(qq) \o Flatten(Tail(qq))

\* for comparison: range(1, 16)
ExpectedBgShort == 1..(NumBackgrounds - 1)

expected_bg == 1..NumBackgrounds

miss_bg(bg_found) == SortedInts(expected_bg \ bg_found)

extra_bg(bg_found) == SortedInts(bg_found \ expected_bg)

BgErrors(bg_found) ==
    IF miss_bg(bg_found) # <<>>
    THEN <<Msg("miss_bg", "", miss_bg(bg_found), <<>>, "")>> ELSE <<>>

BgWarnings(bg_found) ==
    IF extra_bg(bg_found) # <<>>
    THEN <<Msg("extra_bg", "", extra_bg(bg_found), <<>>, "")>> ELSE <<>>

cfg_roles(meta) == [k \in 1..Len(meta) |-> meta[k].role]

miss_roles(cfg, assets_roles) == SortedNames(cfg \ assets_roles)

extra_roles(cfg, assets_roles) == SortedNames(assets_roles \ cfg)

RoleDirErrors(meta) ==
    LET miss == miss_roles(Range(cfg_roles(meta)), _scan_roles_in_assets)
    IN IF miss # <<>> THEN <<Msg("miss_roles", "", <<>>, miss, "")>> ELSE <<>>

RoleDirWarnings(meta) ==
    LET extra == extra_roles(Range(cfg_roles(meta)), _scan_roles_in_assets)
    IN IF extra # <<>> THEN <<Msg("extra_roles", "", <<>>, extra, "")>> ELSE <<>>

\* {meta[r].get("font") for r in cfg_roles if isinstance(meta.get(r), dict)}
fonts(meta) == {Get(meta[k].cfg.font) : k \in {j \in 1..Len(meta) : meta[j].cfg.kind = "dict"}}

\* not os.path.isfile(os.path.join(assets_dir, "fonts", str(font)))
FontMissing(font) == StrOf(font) \notin fontFiles

\* the meta and text_cfg arguments of the validate_assets calls
CallMeta == IF mode = "direct" THEN metaArg ELSE MAHOSHOJO

CallText == IF mode = "direct" THEN textArg ELSE TEXT_CONFIGS

\* for comparison: the fonts checked role by role, without the set
FontErrorsPerRole(order) ==
    Flatten([k \in 1..Len(CallMeta) |->
        IF CallMeta[k].cfg.kind = "dict" /\ FontMissing(Get(CallMeta[k].cfg.font))
        THEN <<Msg("miss_font", "", <<>>, <<>>, StrOf(Get(CallMeta[k].cfg.font)))>>
        ELSE <<>>])

\* the loop over the set fonts, in the order the set is iterated in
FontErrors(order) ==
    Flatten([k \in 1..Len(order) |->
        IF FontMissing(order[k])
        THEN <<Msg("miss_font", "", <<>>, <<>>, StrOf(order[k]))>> ELSE <<>>])

\* int(meta[role]["emotion_count"]) if "emotion_count" in meta[role] else 0
EmotionCount(cfg) ==
    CASE cfg.kind = "none" -> [ok |-> FALSE, val |-> 0, exc |-> "TypeError"]
      [] cfg.kind = "list" -> [ok |-> TRUE, val |-> 0, exc |-> ""]
      [] cfg.kind = "dict" /\ cfg.ec.t = "absent" -> [ok |-> TRUE, val |-> 0, exc |-> ""]
      [] OTHER -> IntOf(cfg.ec)

\* for comparison: range(1, ec)
ExpectedDiffsShort(ec) == 1..(ec - 1)

\* set(range(1, ec + 1))
expected_diffs(ec) == 1..ec

DiffErrors(meta) ==
    Flatten([k \in 1..Len(meta) |->
        LET miss == SortedInts(expected_diffs(EmotionCount(meta[k].cfg).val)
                               \ _scan_role_diffs(meta[k].role))
        IN IF miss # <<>> THEN <<Msg("miss_diff", meta[k].role, miss, <<>>, "")>> ELSE <<>>])

DiffWarnings(meta) ==
    Flatten([k \in 1..Len(meta) |->
        LET extra == SortedInts(_scan_role_diffs(meta[k].role)
                                \ expected_diffs(EmotionCount(meta[k].cfg).val))
        IN IF extra # <<>> THEN <<Msg("extra_diff", meta[k].role, extra, <<>>, "")>> ELSE <<>>])

RoleStats(meta) ==
    [r \in Range(cfg_roles(meta)) |->
        LET k == CHOOSE j \in 1..Len(meta) : meta[j].role = r
        IN [expected |-> Cardinality(expected_diffs(EmotionCount(meta[k].cfg).val)),
            found |-> Cardinality(_scan_role_diffs(r))]]

\* for comparison: if text_cfg is not None
TextNotNone(text_cfg) == ~text_cfg.none

\* if text_cfg:
TextSupplied(text_cfg) == ~text_cfg.none /\ DOMAIN text_cfg.map # {}

TextWarnings(meta, text_cfg) ==
    IF ~TextSupplied(text_cfg) THEN <<>>
    ELSE LET text_roles == DOMAIN text_cfg.map
             cfg_roles_set == Range(cfg_roles(meta))
             diff_a == SortedNames(text_roles \ cfg_roles_set)
             diff_b == SortedNames(cfg_roles_set \ text_roles)
         IN (IF diff_a # <<>> THEN <<Msg("text_unconfigured", "", <<>>, diff_a, "")>> ELSE <<>>)
            \o (IF diff_b # <<>> THEN <<Msg("role_no_text", "", <<>>, diff_b, "")>> ELSE <<>>)

\* for comparison: warnings count against ok
OkNoMessages(errors, warnings) == Len(errors) = 0 /\ Len(warnings) = 0

\* ok = len(errors) == 0
Ok(errors, warnings) == Len(errors) = 0

\* the first role of the differential loop whose emotion_count raises, or 0
FirstRaising(meta) ==
    IF \E k \in 1..Len(meta) : ~EmotionCount(meta[k].cfg).ok
    THEN CHOOSE k \in 1..Len(meta) :
            /\ ~EmotionCount(meta[k].cfg).ok
            /\ \A j \in 1..(k - 1) : EmotionCount(meta[j].cfg).ok
    ELSE 0

Raised(exc) ==
    [raised |-> TRUE, exc |-> exc, ok |-> FALSE, errors |-> <<>>, warnings |-> <<>>,
     stats |-> [backgrounds |-> [found |-> 0], roles |-> <<>>]]

\* validate_assets(meta, text_cfg, assets_dir), the set fonts iterated in `order`
validate_assets(meta, text_cfg, order) ==
    IF FirstRaising(meta) # 0
    THEN Raised(EmotionCount(meta[FirstRaising(meta)].cfg).exc)
    ELSE LET bg_found == _scan_backgrounds
             errors == BgErrors(bg_found) \o RoleDirErrors(meta)
                       \o FontErrors(order) \o DiffErrors(meta)
             warnings == BgWarnings(bg_found) \o RoleDirWarnings(meta)
                         \o DiffWarnings(meta) \o TextWarnings(meta, text_cfg)
         IN [raised |-> FALSE, exc |-> "", ok |-> Ok(errors, warnings),
             errors |-> errors, warnings |-> warnings,
             stats |-> [backgrounds |-> [found |-> Cardinality(bg_found)],
                        roles |-> RoleStats(meta)]]

-----------------------------------------------------------------------------
(* Config readers.  A document is what _read_yaml returned: read is FALSE   *)
(* when it returned None or an empty mapping, rootIsDict tells whether the  *)
(* top-level key holds a mapping, roles lists that mapping in file order.   *)

\* for comparison: ec < 0 rejected instead of ec <= 0
RoleValidNonNegative(cfg) ==
    /\ cfg.kind = "dict"
    /\ IntOf(Get(cfg.ec)).ok
    /\ IntOf(Get(cfg.ec)).val >= 0
    /\ Get(cfg.font).t = "str"
    /\ Get(cfg.font).s # ""

\* emotion_count coerces to a positive integer and font is a non-empty string
RoleValid(cfg) ==
    /\ cfg.kind = "dict"
    /\ IntOf(Get(cfg.ec)).ok
    /\ IntOf(Get(cfg.ec)).val > 0
    /\ Get(cfg.font).t = "str"
    /\ Get(cfg.font).s # ""

\* {"emotion_count": ec, "font": font, "full_name": full_name}
LoadedRole(cfg) ==
    [kind |-> "dict",
     ec |-> PyInt(IntOf(Get(cfg.ec)).val),
     font |-> Get(cfg.font),
     full_name |-> IF cfg.full_name.t = "str" THEN cfg.full_name ELSE PyStr("")]

load_chara_meta(doc) ==
    IF ~doc.read \/ ~doc.rootIsDict THEN <<>>
    ELSE Flatten([k \in 1..Len(doc.roles) |->
            IF RoleValid(doc.roles[k].cfg)
            THEN <<[role |-> doc.roles[k].role, cfg |-> LoadedRole(doc.roles[k].cfg)]>>
            ELSE <<>>])

\* an item of a role's list: position and font_color by their lengths
ItemValid(item) ==
    /\ item.isDict
    /\ item.poslen = 2
    /\ item.colorlen = 3
    /\ IntOf(Get(item.font_size)).ok

LoadedItems(items) ==
    Flatten([k \in 1..Len(items) |->
        IF ItemValid(items[k])
        THEN <<[font_size |-> IntOf(Get(items[k].font_size)).val]>> ELSE <<>>])

load_text_configs(doc) ==
    IF ~doc.read \/ ~doc.rootIsDict THEN [none |-> FALSE, map |-> <<>>]
    ELSE LET listed == {k \in 1..Len(doc.roles) : doc.roles[k].isList}
         IN [none |-> FALSE,
             map |-> [r \in {doc.roles[k].role : k \in listed} |->
                        LoadedItems(doc.roles[CHOOSE k \in listed : doc.roles[k].role = r].items)]]

\* str.strip() on the spellings of the model
Strip(x) ==
    CASE x = " a.exe " -> "a.exe"
      [] x = " " -> ""
      [] OTHER -> x

load_process_whitelist(doc, name) ==
    IF ~doc.read \/ Lower(name) \notin DOMAIN doc.keys \/ ~doc.keys[Lower(name)].isList
    THEN <<>>
    ELSE LET items == doc.keys[Lower(name)].items
         IN Flatten([k \in 1..Len(items) |->
                IF items[k].t = "str" /\ Strip(items[k].s) # ""
                THEN <<Strip(items[k].s)>> ELSE <<>>])

-----------------------------------------------------------------------------
(* Inputs *)

RoleCfg(ec, font) ==
    [kind |-> "dict", ec |-> ec, font |-> font, full_name |-> PyStr("")]

NotDict(kind) ==
    [kind |-> kind, ec |-> Absent, font |-> Absent, full_name |-> Absent]

Entry(role, cfg) == [role |-> role, cfg |-> cfg]

NoText == [none |-> TRUE, map |-> <<>>]

TextOf(S) == [none |-> FALSE, map |-> [r \in S |-> <<>>]]

\* text_cfg arguments: None, the empty mapping, mappings over some roles
TextArgs == {NoText} \cup {TextOf(S) : S \in SUBSET {"a", "b", "t"}}

DiffFile(stem, n, ext) == [stem |-> stem, n |-> n, ext |-> ext]

NoEntry == [kind |-> "absent", files |-> {}]
PlainFile == [kind |-> "file", files |-> {}]
DirOf(files) == [kind |-> "dir", files |-> files]

\* chara/<role>/ holding <role>(n).png for n in S
DiffDir(role, S) == DirOf({DiffFile(role, n, "png") : n \in S})

\* files of chara/<role>/ besides the <role>(n).png ones
OddDiffFiles(role) ==
    {{},
     {DiffFile("t", 1, "png"), DiffFile(role, MaxIdx, "jpg")},
     {DiffFile(IF role = "a" THEN "A" ELSE "B", 1, "PNG")}}

AllBackgrounds == {BgFile("c", n, "png") : n \in 1..NumBackgrounds}

FullBg == [exists |-> TRUE, files |-> AllBackgrounds]

\* background files besides c1.png .. c16.png
OddBgFiles ==
    {BgFile("c", NumBackgrounds + 1, "png"), BgFile("c", 0, "png"),
     BgFile("C", 5, "PNG"), BgFile("c", 5, "jpg"), BgFile("x", 1, "png")}

BgDirs ==
    {[exists |-> FALSE, files |-> {}], [exists |-> TRUE, files |-> {}]}
    \cup {[exists |-> TRUE,
           files |-> {f \in AllBackgrounds : f.n \notin M} \cup X] :
            M \in SUBSET {1, 5, NumBackgrounds}, X \in SUBSET OddBgFiles}

\* chara/ with a directory holding <role>(1..ec).png for every role of meta
CompleteChara(meta) ==
    [exists |-> TRUE,
     entries |-> [n \in Range(Names) |->
        IF \E k \in 1..Len(meta) : meta[k].role = n
        THEN LET k == CHOOSE j \in 1..Len(meta) : meta[j].role = n
             IN DiffDir(n, 1..EmotionCount(meta[k].cfg).val)
        ELSE NoEntry]]

EmptyChara == [exists |-> FALSE, entries |-> [n \in Range(Names) |-> NoEntry]]

NoDoc == [read |-> FALSE, rootIsDict |-> FALSE, roles |-> <<>>]

NoWhite == [read |-> FALSE, keys |-> <<>>]

\* the variables the other mode uses, and the results not yet produced
InitDirect ==
    /\ mode = "direct"
    /\ pc = "call"
    /\ charaDoc = NoDoc
    /\ textDoc = NoDoc
    /\ whiteDoc = NoWhite
    /\ os_name = ""
    /\ callback = "none"

InitResults ==
    /\ MAHOSHOJO = <<>>
    /\ TEXT_CONFIGS = [none |-> FALSE, map |-> <<>>]
    /\ PROCESS_WHITELIST = <<>>
    /\ BACKGROUND_INDEXES = {}
    /\ calls = <<>>
    /\ idx = 1
    /\ sinkCalls = <<>>
    /\ sinkRaised = <<>>
    /\ logged = 0
    /\ returned = <<>>

\* validate_assets over the contents of assets/background
InitBackgrounds ==
    /\ InitDirect
    /\ metaArg \in {<<>>, <<Entry("a", RoleCfg(PyInt(1), PyStr("f1")))>>}
    /\ textArg = NoText
    /\ bgDir \in BgDirs
    /\ charaDir = CompleteChara(metaArg)
    /\ fontFiles = {"f1"}

\* validate_assets over the configured roles, the entries of assets/chara and
\* the roles of the text configuration
InitRoleDirs ==
    /\ InitDirect
    /\ metaArg \in {<<>>} \cup
         {<<Entry(r, RoleCfg(PyInt(1), PyStr("f1")))>> : r \in {"a", "b"}} \cup
         {<<Entry(r[1], RoleCfg(PyInt(1), PyStr("f1"))),
            Entry(r[2], RoleCfg(PyInt(1), PyStr("f1")))>> :
                r \in {<<"a", "b">>, <<"b", "a">>}}
    /\ textArg \in TextArgs
    /\ bgDir = FullBg
    /\ charaDir \in {EmptyChara} \cup
         {[exists |-> TRUE,
           entries |-> [n \in Range(Names) |->
              IF n = "t" THEN NoEntry ELSE
              IF e[n] = "dir" THEN DiffDir(n, {1}) ELSE
              IF e[n] = "file" THEN PlainFile ELSE NoEntry]] :
            e \in [{"a", "b", "ghost"} -> {"absent", "file", "dir"}]}
    /\ fontFiles = {"f1"}

FontArgs == {PyStr("f1"), PyStr("f2"), Absent}

\* validate_assets over the fonts of up to three roles and the files of assets/fonts
InitFonts ==
    /\ InitDirect
    /\ metaArg \in
         {<<Entry("a", RoleCfg(PyInt(1), f))>> : f \in FontArgs} \cup
         {<<Entry("a", RoleCfg(PyInt(1), f[1])), Entry("b", RoleCfg(PyInt(1), f[2]))>> :
            f \in FontArgs \X FontArgs} \cup
         {<<Entry("a", RoleCfg(PyInt(1), f[1])), Entry("b", RoleCfg(PyInt(1), f[2])),
            Entry("t", RoleCfg(PyInt(1), f[3]))>> : f \in FontArgs \X FontArgs \X FontArgs}
    /\ textArg = NoText
    /\ bgDir = FullBg
    /\ charaDir = CompleteChara(metaArg)
    /\ fontFiles \in SUBSET {"f1", "f2", "None"}

EcArgs == {Absent} \cup {PyInt(n) : n \in 1..MaxEc}

\* validate_assets over emotion_count and the files of chara/<role>
InitDiffs ==
    /\ InitDirect
    /\ \E ea \in EcArgs, eb \in {PyInt(n) : n \in 0..MaxEc},
          da \in {NoEntry} \cup {DirOf(DiffDir("a", S).files \cup X) :
                                    S \in SUBSET (1..MaxIdx), X \in OddDiffFiles("a")},
          db \in {DiffDir("b", S) : S \in {{}, {1}, {MaxIdx}, 1..MaxIdx}} :
        /\ metaArg = <<Entry("a", RoleCfg(ea, PyStr("f1")))>>
                     \o (IF eb.i = 0 THEN <<>> ELSE <<Entry("b", RoleCfg(eb, PyStr("f1")))>>)
        /\ charaDir = [exists |-> TRUE,
                       entries |-> [n \in Range(Names) |->
                          IF n = "a" THEN da ELSE
                          IF n = "b" /\ eb.i # 0 THEN db ELSE NoEntry]]
        /\ eb.i = 0 => db = DiffDir("b", {})
    /\ textArg = NoText
    /\ bgDir = FullBg
    /\ fontFiles = {"f1"}

\* role values a caller can hand to validate_assets
AnyCfgs ==
    {NotDict("none"), NotDict("list")} \cup
    {RoleCfg(e, f) : e \in {Absent, PyNone, PyStr("abc"), PyStr("2"), PyInt(1)},
                     f \in {PyStr("f1"), Absent}}

\* validate_assets over metas that load_chara_meta would not have produced
InitAnyMeta ==
    /\ InitDirect
    /\ metaArg \in {<<Entry("a", c)>> : c \in AnyCfgs} \cup
                   {<<Entry("a", c[1]), Entry("b", c[2])>> : c \in AnyCfgs \X AnyCfgs}
    /\ textArg \in {NoText, TextOf({"a"})}
    /\ bgDir = FullBg
    /\ charaDir \in {EmptyChara,
                     [exists |-> TRUE,
                      entries |-> [n \in Range(Names) |->
                         IF n \in {"a", "b"} THEN DiffDir(n, {1}) ELSE NoEntry]]}
    /\ fontFiles = {"f1"}

RawCfg(ec, font, full_name) ==
    [kind |-> "dict", ec |-> ec, font |-> font, full_name |-> full_name]

\* role values of a parsed chara_meta.yml
RawCfgs ==
    {NotDict("none"), NotDict("list")} \cup
    {RawCfg(e, f, n) :
        e \in {Absent, PyNone, PyInt(0 - 1), PyInt(0), PyStr("2"), PyStr("abc")}
              \cup {PyInt(k) : k \in 1..MaxEc},
        f \in {Absent, PyStr(""), PyStr("f1"), PyInt(5)},
        n \in {Absent, PyStr("Luna"), PyInt(3)}}

CharaDocOf(roles) == [read |-> TRUE, rootIsDict |-> TRUE, roles |-> roles]

TextItem(isDict, poslen, colorlen, font_size) ==
    [isDict |-> isDict, poslen |-> poslen, colorlen |-> colorlen, font_size |-> font_size]

SomeTextDoc ==
    [read |-> TRUE, rootIsDict |-> TRUE,
     roles |-> <<[role |-> "a", isList |-> TRUE,
                  items |-> <<TextItem(TRUE, 2, 3, PyInt(5)), TextItem(TRUE, 3, 3, PyInt(5)),
                              TextItem(FALSE, 2, 3, PyInt(5)), TextItem(TRUE, 2, 3, Absent)>>],
                 [role |-> "t", isList |-> TRUE, items |-> <<>>],
                 [role |-> "b", isList |-> FALSE, items |-> <<>>]>>]

SomeWhiteDoc ==
    [read |-> TRUE,
     keys |-> [k \in {"win32"} |->
                 [isList |-> TRUE,
                  items |-> <<PyStr(" a.exe "), PyStr(" "), PyInt(5), PyStr("b.exe")>>]]]

\* a disk that matches one role "a" with emotion_count 1 and font f1
InitPlainDisk ==
    /\ bgDir = FullBg
    /\ charaDir = CompleteChara(<<Entry("a", RoleCfg(PyInt(1), PyStr("f1")))>>)
    /\ fontFiles = {"f1"}

\* load_all_and_validate over the documents it reads
InitLoadDocs ==
    /\ mode = "load"
    /\ pc = "load"
    /\ metaArg = <<>>
    /\ textArg = NoText
    /\ charaDoc \in
         {NoDoc, [read |-> TRUE, rootIsDict |-> FALSE, roles |-> <<>>]} \cup
         {CharaDocOf(<<Entry("a", c)>>) : c \in RawCfgs} \cup
         {CharaDocOf(<<Entry("a", c), Entry("b", d)>>) :
            c \in RawCfgs,
            d \in {NotDict("none"), RawCfg(PyInt(1), PyStr("f2"), Absent),
                   RawCfg(PyInt(0), PyStr("f2"), Absent)}}
    /\ \E d \in {<<NoDoc, NoWhite, "linux">>, <<SomeTextDoc, SomeWhiteDoc, "Win32">>,
                 <<SomeTextDoc, SomeWhiteDoc, "linux">>} :
         /\ textDoc = d[1]
         /\ whiteDoc = d[2]
         /\ os_name = d[3]
    /\ callback = "none"
    /\ InitPlainDisk

\* load_all_and_validate with a sink, over disks that produce messages
InitLoadSink ==
    /\ mode = "load"
    /\ pc = "load"
    /\ metaArg = <<>>
    /\ textArg = NoText
    /\ charaDoc \in
         {CharaDocOf(<<Entry("a", RawCfg(PyInt(2), PyStr("f1"), Absent))>>),
          CharaDocOf(<<Entry("b", RawCfg(PyInt(1), PyStr("f2"), Absent)),
                       Entry("a", RawCfg(PyInt(2), PyStr("f1"), Absent))>>)}
    /\ textDoc = SomeTextDoc
    /\ whiteDoc = SomeWhiteDoc
    /\ os_name = "win32"
    /\ callback \in {"none", "sink"}
    /\ bgDir \in {FullBg,
                  [exists |-> TRUE,
                   files |-> (AllBackgrounds \ {BgFile("c", 5, "png")})
                             \cup {BgFile("c", NumBackgrounds + 1, "png")}]}
    /\ charaDir \in
         {EmptyChara,
          [exists |-> TRUE,
           entries |-> [n \in Range(Names) |->
              IF n = "a" THEN DiffDir("a", {1, MaxIdx}) ELSE
              IF n = "ghost" THEN DiffDir("ghost", {}) ELSE NoEntry]]}
    /\ fontFiles \in {{}, {"f1", "f2"}}

Init ==
    /\ InitResults
    /\ \/ InitBackgrounds
       \/ InitRoleDirs
       \/ InitFonts
       \/ InitDiffs
       \/ InitAnyMeta
       \/ InitLoadDocs
       \/ InitLoadSink

-----------------------------------------------------------------------------
(* Operations *)

\* a caller's call validate_assets(meta, text_cfg, assets_dir)
Validate ==
    /\ mode = "direct"
    /\ pc = "call"
    /\ Len(calls) < NumCalls
    /\ \E order \in Orders(fonts(metaArg)) :
         calls' = Append(calls, [order |-> order,
                                 result |-> validate_assets(metaArg, textArg, order)])
    /\ UNCHANGED <<mode, pc, metaArg, textArg, charaDoc, textDoc, whiteDoc, os_name,
                   callback, bgDir, charaDir, fontFiles, MAHOSHOJO, TEXT_CONFIGS,
                   PROCESS_WHITELIST, BACKGROUND_INDEXES, idx, sinkCalls, sinkRaised,
                   logged, returned>>

\* load_all_and_validate: the three loads and the background scan
LoadConfigs ==
    /\ mode = "load"
    /\ pc = "load"
    /\ MAHOSHOJO' = load_chara_meta(charaDoc)
    /\ TEXT_CONFIGS' = load_text_configs(textDoc)
    /\ PROCESS_WHITELIST' = load_process_whitelist(whiteDoc, os_name)
    /\ BACKGROUND_INDEXES' = _scan_backgrounds
    /\ pc' = "validate"
    /\ UNCHANGED <<mode, metaArg, textArg, charaDoc, textDoc, whiteDoc, os_name,
                   callback, bgDir, charaDir, fontFiles, calls, idx, sinkCalls,
                   sinkRaised, logged, returned>>

\* where the two delivery loops stand when the loop `stage` is about to take
\* its item i
Position(stage, i, report) ==
    IF stage = "warnings" /\ i <= Len(report.warnings)
    THEN [pc |-> "warnings", idx |-> i]
    ELSE IF stage = "warnings" /\ Len(report.errors) >= 1
    THEN [pc |-> "errors", idx |-> 1]
    ELSE IF stage = "errors" /\ i <= Len(report.errors)
    THEN [pc |-> "errors", idx |-> i]
    ELSE [pc |-> "return", idx |-> 1]

\* for comparison: a failure of the sink ends the delivery
AfterSinkAbort(stage, i, raised, report) ==
    IF raised THEN [pc |-> "return", idx |-> 1] ELSE Position(stage, i + 1, report)

\* try: callback(...) except Exception: logger.exception(...), then the next item
AfterSink(stage, i, raised, report) == Position(stage, i + 1, report)

\* load_all_and_validate: report = validate_assets(MAHOSHOJO, TEXT_CONFIGS, assets_dir)
ValidateLoaded ==
    /\ mode = "load"
    /\ pc = "validate"
    /\ \E order \in Orders(fonts(MAHOSHOJO)) :
         LET result == validate_assets(MAHOSHOJO, TEXT_CONFIGS, order)
             start == Position("warnings", 1, result)
         IN /\ calls' = <<[order |-> order, result |-> result]>>
            /\ pc' = IF result.raised THEN "raised"
                     ELSE IF callback = "sink" THEN start.pc ELSE "return"
            /\ idx' = IF callback = "sink" THEN start.idx ELSE 1
    /\ UNCHANGED <<mode, metaArg, textArg, charaDoc, textDoc, whiteDoc, os_name,
                   callback, bgDir, charaDir, fontFiles, MAHOSHOJO, TEXT_CONFIGS,
                   PROCESS_WHITELIST, BACKGROUND_INDEXES, sinkCalls, sinkRaised,
                   logged, returned>>

Deliver(stage, msg) ==
    \E raised \in BOOLEAN :
        LET after == AfterSink(stage, idx, raised, calls[1].result)
        IN /\ sinkCalls' = Append(sinkCalls, [prefix |-> stage, msg |-> msg])
           /\ sinkRaised' = Append(sinkRaised, raised)
           /\ logged' = IF raised THEN logged + 1 ELSE logged
           /\ pc' = after.pc
           /\ idx' = after.idx

\* for w in report["warnings"]: one iteration
DeliverWarning ==
    /\ mode = "load"
    /\ pc = "warnings"
    /\ Deliver("warnings", calls[1].result.warnings[idx])
    /\ UNCHANGED <<mode, metaArg, textArg, charaDoc, textDoc, whiteDoc, os_name,
                   callback, bgDir, charaDir, fontFiles, MAHOSHOJO, TEXT_CONFIGS,
                   PROCESS_WHITELIST, BACKGROUND_INDEXES, calls, returned>>

\* for e in report["errors"]: one iteration
DeliverError ==
    /\ mode = "load"
    /\ pc = "errors"
    /\ Deliver("errors", calls[1].result.errors[idx])
    /\ UNCHANGED <<mode, metaArg, textArg, charaDoc, textDoc, whiteDoc, os_name,
                   callback, bgDir, charaDir, fontFiles, MAHOSHOJO, TEXT_CONFIGS,
                   PROCESS_WHITELIST, BACKGROUND_INDEXES, calls, returned>>

\* return loaded, report
Return ==
    /\ mode = "load"
    /\ pc = "return"
    /\ returned' = [loaded |-> [mahoshojo |-> MAHOSHOJO,
                                text_configs |-> TEXT_CONFIGS,
                                whitelist |-> PROCESS_WHITELIST,
                                backgrounds |-> SortedInts(BACKGROUND_INDEXES)],
                    report |-> calls[1].result]
    /\ pc' = "done"
    /\ UNCHANGED <<mode, metaArg, textArg, charaDoc, textDoc, whiteDoc, os_name,
                   callback, bgDir, charaDir, fontFiles, MAHOSHOJO, TEXT_CONFIGS,
                   PROCESS_WHITELIST, BACKGROUND_INDEXES, calls, idx, sinkCalls,
                   sinkRaised, logged>>

Next ==
    \/ Validate
    \/ LoadConfigs
    \/ ValidateLoaded
    \/ DeliverWarning
    \/ DeliverError
    \/ Return

Spec == Init /\ [][Next]_vars

-----------------------------------------------------------------------------
(* Properties *)

\* the validate_assets calls that returned a report
Reports == {calls[k].result : k \in {j \in 1..Len(calls) : ~calls[j].result.raised}}

OfKind(msgs, kind) == SelectSeq(msgs, LAMBDA m : m.kind = kind)

\* q lists the integers of S in ascending order
AscendingInts(q, S) ==
    /\ Len(q) = Cardinality(S)
    /\ Range(q) = S
    /\ \A i, j \in 1..Len(q) : i < j => q[i] < q[j]

\* q lists the names of S in ascending order
AscendingNames(q, S) ==
    /\ Len(q) = Cardinality(S)
    /\ Range(q) = S
    /\ \A i, j \in 1..Len(q) : i < j => Rank(q[i]) < Rank(q[j])

\* C1: every report has ok = TRUE exactly when its errors sequence is empty,
\* whatever its warnings.
C1_OkIffNoErrors ==
    \A r \in Reports : r.ok <=> (r.errors = <<>>)

\* C1 witness: a report with warnings and no error, and ok = TRUE
C1_Witness ==
    \E r \in Reports : r.warnings # <<>> /\ r.errors = <<>> /\ r.ok

\* roles whose emotion_count is absent or does not coerce to an integer, or
\* whose value is not a mapping
NoCountRoles(meta) ==
    {k \in 1..Len(meta) :
        \/ meta[k].cfg.kind # "dict"
        \/ meta[k].cfg.ec.t \in {"absent", "none"}
        \/ meta[k].cfg.ec.t = "str" /\ ~IsNumeral(meta[k].cfg.ec.s)}

\* C2: validate_assets never raises: every call returns a report, in which a
\* role with absent or invalid emotion_count, or that is not a mapping, has
\* expected = 0.
C2_NeverRaises ==
    \A k \in 1..Len(calls) :
        /\ ~calls[k].result.raised
        /\ \A j \in NoCountRoles(CallMeta) :
              calls[k].result.stats.roles[CallMeta[j].role].expected = 0

\* C3: two calls of validate_assets on the same inputs produce the same
\* report, message order included.
C3_SameReport ==
    \A i, j \in 1..Len(calls) : calls[i].result = calls[j].result

\* C4: one background error listing, ascending, the indices of 1..16 that are
\* not found, iff there is one; one background warning listing, ascending, the
\* found indices outside 1..16, iff there is one; stats.backgrounds.found is
\* the number of found indices.
C4_Backgrounds ==
    \A r \in Reports :
        LET found == _scan_backgrounds
            missing == (1..NumBackgrounds) \ found
            extra == found \ (1..NumBackgrounds)
            errs == OfKind(r.errors, "miss_bg")
            warns == OfKind(r.warnings, "extra_bg")
        IN /\ OfKind(r.warnings, "miss_bg") = <<>>
           /\ OfKind(r.errors, "extra_bg") = <<>>
           /\ missing = {} => errs = <<>>
           /\ missing # {} => Len(errs) = 1 /\ AscendingInts(errs[1].ints, missing)
           /\ extra = {} => warns = <<>>
           /\ extra # {} => Len(warns) = 1 /\ AscendingInts(warns[1].ints, extra)
           /\ r.stats.backgrounds.found = Cardinality(found)

\* C4 witness: every background but c5.png is there, and the error lists [5]
C4_Witness ==
    /\ _scan_backgrounds = (1..NumBackgrounds) \ {5}
    /\ \E r \in Reports :
          /\ OfKind(r.errors, "miss_bg") = <<Msg("miss_bg", "", <<5>>, <<>>, "")>>
          /\ OfKind(r.warnings, "extra_bg") = <<>>

ForRole(msgs, kind, role) == SelectSeq(msgs, LAMBDA m : m.kind = kind /\ m.role = role)

\* C5: for a configured role with emotion_count n and differential indices
\* found, stats.roles[role] = {expected: n, found: |found|}, one error for the
\* role listing, ascending, 1..n minus found iff that is non-empty, and one
\* warning listing, ascending, found minus 1..n iff that is non-empty.
C5_Differentials ==
    \A r \in Reports : \A k \in 1..Len(CallMeta) :
        (CallMeta[k].cfg.kind = "dict" /\ CallMeta[k].cfg.ec.t = "int") =>
            LET role == CallMeta[k].role
                n == CallMeta[k].cfg.ec.i
                found == _scan_role_diffs(role)
                missing == (1..n) \ found
                extra == found \ (1..n)
                errs == ForRole(r.errors, "miss_diff", role)
                warns == ForRole(r.warnings, "extra_diff", role)
            IN /\ r.stats.roles[role] = [expected |-> n, found |-> Cardinality(found)]
               /\ ForRole(r.warnings, "miss_diff", role) = <<>>
               /\ ForRole(r.errors, "extra_diff", role) = <<>>
               /\ missing = {} => errs = <<>>
               /\ missing # {} => Len(errs) = 1 /\ AscendingInts(errs[1].ints, missing)
               /\ extra = {} => warns = <<>>
               /\ extra # {} => Len(warns) = 1 /\ AscendingInts(warns[1].ints, extra)

\* C5 witness: emotion_count 3 and files 1 and 2: the error lists [3], the
\* stats are {expected: 3, found: 2}
C5_Witness ==
    \E r \in Reports : \E k \in 1..Len(CallMeta) :
        /\ CallMeta[k].cfg.ec = PyInt(3)
        /\ _scan_role_diffs(CallMeta[k].role) = {1, 2}
        /\ ForRole(r.errors, "miss_diff", CallMeta[k].role)
             = <<Msg("miss_diff", CallMeta[k].role, <<3>>, <<>>, "")>>
        /\ r.stats.roles[CallMeta[k].role] = [expected |-> 3, found |-> 2]

\* the distinct font values of the configured roles
ConfiguredFonts ==
    {Get(CallMeta[k].cfg.font) : k \in {j \in 1..Len(CallMeta) : CallMeta[j].cfg.kind = "dict"}}

\* C6: the number of font-missing errors is the number of distinct configured
\* font values whose file fonts/<font> is not there.
C6_FontErrors ==
    \A r \in Reports :
        /\ Len(OfKind(r.errors, "miss_font"))
             = Cardinality({f \in ConfiguredFonts : StrOf(f) \notin fontFiles})
        /\ OfKind(r.warnings, "miss_font") = <<>>

\* C6 witness: three roles share a font whose file is missing, one error
C6_Witness ==
    /\ Len(CallMeta) = 3
    /\ ConfiguredFonts = {PyStr("f1")}
    /\ "f1" \notin fontFiles
    /\ \E r \in Reports : Len(OfKind(r.errors, "miss_font")) = 1

\* the directories under chara/
DiskRoleDirs ==
    {n \in Range(Names) : charaDir.exists /\ charaDir.entries[n].kind = "dir"}

\* C7: configured roles without a directory give one error listing them
\* sorted, directories without configuration one warning listing them sorted,
\* and equal sets give neither.
C7_RoleDirs ==
    \A r \in Reports :
        LET cfg == Range(cfg_roles(CallMeta))
            errs == OfKind(r.errors, "miss_roles")
            warns == OfKind(r.warnings, "extra_roles")
        IN /\ OfKind(r.warnings, "miss_roles") = <<>>
           /\ OfKind(r.errors, "extra_roles") = <<>>
           /\ cfg \ DiskRoleDirs = {} => errs = <<>>
           /\ cfg \ DiskRoleDirs # {} =>
                Len(errs) = 1 /\ AscendingNames(errs[1].names, cfg \ DiskRoleDirs)
           /\ DiskRoleDirs \ cfg = {} => warns = <<>>
           /\ DiskRoleDirs \ cfg # {} =>
                Len(warns) = 1 /\ AscendingNames(warns[1].names, DiskRoleDirs \ cfg)

\* C7 witness: the configured roles have their directories and there is one
\* more, ghost: one warning naming ghost and no role-directory error
C7_Witness ==
    /\ CallMeta # <<>>
    /\ DiskRoleDirs = Range(cfg_roles(CallMeta)) \cup {"ghost"}
    /\ \E r \in Reports :
          /\ OfKind(r.warnings, "extra_roles") = <<Msg("extra_roles", "", <<>>, <<"ghost">>, "")>>
          /\ OfKind(r.errors, "miss_roles") = <<>>

\* what the sink is to be invoked with: the warnings, then the errors
Expected(report) ==
    [k \in 1..Len(report.warnings) |-> [prefix |-> "warnings", msg |-> report.warnings[k]]]
    \o [k \in 1..Len(report.errors) |-> [prefix |-> "errors", msg |-> report.errors[k]]]

\* C8: with a sink, the sink is invoked once per message, the warnings in
\* report order and then the errors in report order, whichever invocations
\* raise; no failure of the sink ends the call, which returns (loaded, report).
C8_SinkDelivery ==
    mode = "load" =>
        /\ pc # "raised"
        /\ logged = Cardinality({k \in 1..Len(sinkRaised) : sinkRaised[k]})
        /\ (callback = "sink" /\ calls # <<>>) =>
              /\ Len(sinkCalls) <= Len(Expected(calls[1].result))
              /\ sinkCalls = SubSeq(Expected(calls[1].result), 1, Len(sinkCalls))
              /\ pc \in {"return", "done"} => sinkCalls = Expected(calls[1].result)
        /\ callback = "none" => sinkCalls = <<>>
        /\ pc = "done" =>
              /\ returned.report = calls[1].result
              /\ returned.loaded.mahoshojo = MAHOSHOJO

\* C8 witness: the call returned after a sink that raised on a warning and on
\* an error that were not the last ones
C8_Witness ==
    /\ mode = "load" /\ pc = "done" /\ callback = "sink"
    /\ Len(calls[1].result.warnings) >= 2
    /\ Len(calls[1].result.errors) >= 2
    /\ sinkRaised[1]
    /\ sinkRaised[Len(calls[1].result.warnings) + 1]
    /\ Len(sinkCalls) = Len(calls[1].result.warnings) + Len(calls[1].result.errors)

TextKinds == {"text_unconfigured", "role_no_text"}

\* C9: the errors are those of the call without text config, and no error is
\* about text coverage; a supplied, non-empty text config gives one warning for
\* the roles only it has and one for the configured roles it lacks, an absent
\* or empty one gives no coverage warning.
C9_TextCoverage ==
    \A k \in 1..Len(calls) :
        LET r == calls[k].result
            text_roles == DOMAIN CallText.map
            cfg == Range(cfg_roles(CallMeta))
            only_text == OfKind(r.warnings, "text_unconfigured")
            no_text == OfKind(r.warnings, "role_no_text")
        IN ~r.raised =>
           /\ \A plain \in {validate_assets(CallMeta, NoText, calls[k].order)} :
                r.errors = plain.errors /\ r.ok = plain.ok
           /\ \A i \in 1..Len(r.errors) : r.errors[i].kind \notin TextKinds
           /\ IF CallText.none \/ text_roles = {}
              THEN only_text = <<>> /\ no_text = <<>>
              ELSE /\ text_roles \ cfg = {} => only_text = <<>>
                   /\ text_roles \ cfg # {} =>
                        Len(only_text) = 1 /\ AscendingNames(only_text[1].names, text_roles \ cfg)
                   /\ cfg \ text_roles = {} => no_text = <<>>
                   /\ cfg \ text_roles # {} =>
                        Len(no_text) = 1 /\ AscendingNames(no_text[1].names, cfg \ text_roles)

\* C9 witness: a text config with a role of its own and without a configured
\* role: two warnings, no error, ok
C9_Witness ==
    /\ ~CallText.none
    /\ \E r \in Reports :
          /\ Len(OfKind(r.warnings, "text_unconfigured")) = 1
          /\ Len(OfKind(r.warnings, "role_no_text")) = 1
          /\ r.errors = <<>>
          /\ r.ok

\* emotion_count coercible to a positive integer, font a non-empty string
PassesValidation(cfg) ==
    /\ cfg.kind = "dict"
    /\ \/ cfg.ec.t = "int" /\ cfg.ec.i > 0
       \/ cfg.ec.t = "str" /\ cfg.ec.s \in {"1", "2", "3", "4", "5"}
    /\ cfg.font.t = "str" /\ cfg.font.s # ""

\* C10: every entry load_chara_meta returns has a positive integer
\* emotion_count, a non-empty string font and a string full_name ("" when the
\* document has none or a non-string); the roles returned are exactly the
\* document's roles that pass validation, in the document's order, with the
\* document's emotion_count and font.
C10_LoadCharaMeta ==
    (mode = "load" /\ pc # "load") =>
        LET passing == {k \in 1..Len(charaDoc.roles) : PassesValidation(charaDoc.roles[k].cfg)}
        IN /\ \A k \in 1..Len(MAHOSHOJO) :
                /\ MAHOSHOJO[k].cfg.ec.t = "int" /\ MAHOSHOJO[k].cfg.ec.i > 0
                /\ MAHOSHOJO[k].cfg.font.t = "str" /\ MAHOSHOJO[k].cfg.font.s # ""
                /\ MAHOSHOJO[k].cfg.full_name.t = "str"
                /\ DOMAIN MAHOSHOJO[k].cfg = {"kind", "ec", "font", "full_name"}
           /\ (charaDoc.read /\ charaDoc.rootIsDict) =>
                /\ Len(MAHOSHOJO) = Cardinality(passing)
                /\ \A k \in passing :
                     \E j \in 1..Len(MAHOSHOJO) :
                        /\ MAHOSHOJO[j].role = charaDoc.roles[k].role
                        /\ j = Cardinality({i \in passing : i <= k})
                        /\ MAHOSHOJO[j].cfg.font = charaDoc.roles[k].cfg.font
                        /\ StrOf(MAHOSHOJO[j].cfg.ec) = StrOf(charaDoc.roles[k].cfg.ec)
                        /\ MAHOSHOJO[j].cfg.full_name =
                             (IF charaDoc.roles[k].cfg.full_name.t = "str"
                              THEN charaDoc.roles[k].cfg.full_name ELSE PyStr(""))

\* C10 witness: a document whose first role fails validation and whose second
\* passes: the second alone is loaded
C10_Witness ==
    /\ mode = "load" /\ pc # "load"
    /\ Len(charaDoc.roles) = 2
    /\ ~PassesValidation(charaDoc.roles[1].cfg)
    /\ charaDoc.roles[1].cfg.kind = "dict"
    /\ Len(MAHOSHOJO) = 1
    /\ MAHOSHOJO[1].role = charaDoc.roles[2].role

====
